---- MODULE Spec2Model ----
(***************************************************************************)
(* A model of the two presentation-layer fragments of instant.bible held   *)
(* in packages/web/src/app/header.tsx:                                     *)
(*   - the React search header (lines 25-99): a controlled input, a '/'    *)
(*     shortcut and an Escape shortcut registered on the document;         *)
(*   - the Android VerseResultAdapter (lines 121-225): recycled view       *)
(*     holders, translation buttons and regex highlighting.                *)
(* Three specifications share the variables: SpecHeader, SpecAdapter and   *)
(* SpecHighlight; each leaves the variables of the others unchanged.       *)
(***************************************************************************)
EXTENDS Integers, Sequences, FiniteSets, TLC

VARIABLES
    phase,       \* lifecycle of the header: "unmounted", "mounted", "detached"
    inputRef,    \* inputRef.current: NULL or INPUT
    listeners,   \* the document's keyup listeners, in registration order
    dispatch,    \* identity of the function useDispatch() returns
    query,       \* store: the search query (useQuery)
    dirty,       \* store: the dirty flag (useDirty)
    inputValue,  \* the value the <Input> element displays
    focus,       \* document.activeElement: INPUT or BODY
    ev,          \* the last DOM event delivered, with its outcome
    log,         \* the actions dispatched while handling the last event
    data,        \* VerseResultAdapter.data
    holders,     \* the view holders created by onCreateViewHolder
    last,        \* the last adapter operation
    hl           \* the input and the result of the last getHighlightedText

headerVars == <<phase, inputRef, listeners, dispatch, query, dirty,
                inputValue, focus, ev, log>>
adapterVars == <<data, holders, last>>
vars == <<headerVars, adapterVars, hl>>

(***************************************************************************)
(* Bounds                                                                  *)
(***************************************************************************)
\* how many times the store's dispatch function may change
MaxDispatch == 2

(***************************************************************************)
(* The search header (React)                                               *)
(***************************************************************************)
NULL == "null"
INPUT == "input"
BODY == "body"

\* the values a user may type into the search input
Queries == {"", "a", "ab"}
\* the keys a keyup event may carry
Keys == {"/", "Escape", "a"}
\* the elements a keyup event may target
Targets == {INPUT, BODY}

NoEvent ==
    [type |-> "none", key |-> "", target |-> BODY, value |-> "",
     defaultPrevented |-> FALSE,
     pre |-> [phase |-> "unmounted", inputRef |-> NULL, query |-> "",
              dirty |-> FALSE, focus |-> BODY]]

Snapshot ==
    [phase |-> phase, inputRef |-> inputRef, query |-> query,
     dirty |-> dirty, focus |-> focus]

\* action creators of ../state/search
doSearch(q) == [type |-> "doSearch", query |-> q]
doReset == [type |-> "doReset", query |-> ""]

\* the store's reducer for the two actions
Reduce(s, a) ==
    IF a.type = "doSearch"
    THEN [s EXCEPT !.query = a.query, !.dirty = TRUE]
    ELSE [s EXCEPT !.query = "", !.dirty = FALSE]

\* dispatch(a) through the dispatch function d: the store reduces the action
Dispatch(s, d, a) ==
    [Reduce(s, a) EXCEPT !.log = Append(s.log, [action |-> a, via |-> d])]

\* value={query}: the input shows the store's query, whatever it showed before
\* (variant: an input that keeps what it already shows)
InputValueLocal(q, shown) == shown
InputValue(q, shown) == q

\* handleChange
HandleChange(s, d, value) == Dispatch(s, d, doSearch(value))

\* the keyup handler of the first effect
\* (variant: preventDefault without the focus call)
SlashHandlerNoFocus(s, e, ref) ==
    IF ref = NULL THEN s
    ELSE IF e.target # ref /\ e.key = "/"
         THEN [s EXCEPT !.defaultPrevented = TRUE]
         ELSE s
\* (variant: no test of the event's target)
SlashHandlerAnyTarget(s, e, ref) ==
    IF ref = NULL THEN s
    ELSE IF e.key = "/"
         THEN [s EXCEPT !.defaultPrevented = TRUE, !.focus = ref]
         ELSE s
SlashHandler(s, e, ref) ==
    IF ref = NULL THEN s
    ELSE IF e.target # ref /\ e.key = "/"
         THEN [s EXCEPT !.defaultPrevented = TRUE, !.focus = ref]
         ELSE s

\* the keyup handler of the second effect, closed over the dispatch d
\* (variant: Escape ignored when the event comes from the input)
EscapeHandlerOutsideInput(s, e, d) ==
    IF e.key = "Escape" /\ e.target # INPUT THEN Dispatch(s, d, doReset) ELSE s
EscapeHandler(s, e, d) ==
    IF e.key = "Escape" THEN Dispatch(s, d, doReset) ELSE s

SlashListener == [kind |-> "slash", d |-> 0]
EscapeListener(d) == [kind |-> "escape", d |-> d]

\* the document calls its keyup listeners in registration order
RECURSIVE RunListeners(_, _, _, _)
RunListeners(ls, s, e, ref) ==
    IF ls = <<>> THEN s
    ELSE LET l == Head(ls)
             s1 == IF l.kind = "slash" THEN SlashHandler(s, e, ref)
                   ELSE EscapeHandler(s, e, l.d)
         IN  RunListeners(Tail(ls), s1, e, ref)

addEventListener(ls, l) == Append(ls, l)

\* removes the first registration of l, if any
RECURSIVE removeEventListener(_, _)
removeEventListener(ls, l) ==
    IF ls = <<>> THEN <<>>
    ELSE IF Head(ls) = l THEN Tail(ls)
    ELSE <<Head(ls)>> \o removeEventListener(Tail(ls), l)

\* the cleanup the second effect returns, run before the effect runs again
\* (variant: an effect that returns no cleanup)
EscapeCleanupNone(ls, d) == ls
EscapeCleanup(ls, d) == removeEventListener(ls, EscapeListener(d))

\* the cleanups of both effects, run when the component unmounts
UnmountCleanup(ls, d) ==
    removeEventListener(removeEventListener(ls, SlashListener), EscapeListener(d))

\* the header before its first mount, over an empty store
HeaderIdle ==
    [phase |-> "unmounted", inputRef |-> NULL, listeners |-> <<>>, dispatch |-> 1,
     query |-> "", dirty |-> FALSE, inputValue |-> "", focus |-> BODY,
     ev |-> NoEvent, log |-> <<>>]

HeaderInit ==
    /\ phase = HeaderIdle.phase
    /\ inputRef = HeaderIdle.inputRef
    /\ listeners = HeaderIdle.listeners
    /\ dispatch = HeaderIdle.dispatch
    /\ query = HeaderIdle.query
    /\ dirty = HeaderIdle.dirty
    /\ inputValue = HeaderIdle.inputValue
    /\ focus = HeaderIdle.focus
    /\ ev = HeaderIdle.ev
    /\ log = HeaderIdle.log
    /\ data = <<>>
    /\ holders = <<>>
    /\ last = <<>>
    /\ hl = <<>>

\* first render and commit: the ref is attached, autoFocus focuses the input,
\* both effects run
Mount ==
    /\ phase = "unmounted"
    /\ phase' = "mounted"
    /\ inputRef' = INPUT
    /\ inputValue' = InputValue(query, "")
    /\ focus' = INPUT
    /\ listeners' = addEventListener(addEventListener(listeners, SlashListener),
                                     EscapeListener(dispatch))
    /\ ev' = NoEvent
    /\ log' = <<>>
    /\ UNCHANGED <<dispatch, query, dirty, adapterVars, hl>>

\* a re-render; useDispatch() returns d. The first effect depends on
\* [inputRef], which never changes; the second on [dispatch]
Rerender ==
    /\ phase = "mounted"
    /\ \E d \in {dispatch, dispatch + 1} :
        /\ d <= MaxDispatch
        /\ dispatch' = d
        /\ listeners' = IF d = dispatch THEN listeners
                        ELSE addEventListener(EscapeCleanup(listeners, dispatch),
                                              EscapeListener(d))
    /\ inputValue' = InputValue(query, inputValue)
    /\ ev' = NoEvent
    /\ log' = <<>>
    /\ UNCHANGED <<phase, inputRef, query, dirty, focus, adapterVars, hl>>

\* unmount with the effect cleanups run in the same commit
Unmount ==
    /\ phase = "mounted"
    /\ phase' = "unmounted"
    /\ inputRef' = NULL
    /\ inputValue' = ""
    /\ focus' = BODY
    /\ listeners' = UnmountCleanup(listeners, dispatch)
    /\ ev' = NoEvent
    /\ log' = <<>>
    /\ UNCHANGED <<dispatch, query, dirty, adapterVars, hl>>

\* unmount, first half: the commit removes the input and detaches the ref;
\* the passive effect cleanups are still pending
DetachRef ==
    /\ phase = "mounted"
    /\ phase' = "detached"
    /\ inputRef' = NULL
    /\ inputValue' = ""
    /\ focus' = BODY
    /\ ev' = NoEvent
    /\ log' = <<>>
    /\ UNCHANGED <<listeners, dispatch, query, dirty, adapterVars, hl>>

\* unmount, second half: the pending effect cleanups run
FlushCleanups ==
    /\ phase = "detached"
    /\ phase' = "unmounted"
    /\ listeners' = UnmountCleanup(listeners, dispatch)
    /\ ev' = NoEvent
    /\ log' = <<>>
    /\ UNCHANGED <<inputRef, dispatch, query, dirty, inputValue, focus, adapterVars, hl>>

\* the user moves the focus away from or into the input
Blur ==
    /\ phase = "mounted"
    /\ focus = INPUT
    /\ focus' = BODY
    /\ ev' = NoEvent
    /\ log' = <<>>
    /\ UNCHANGED <<phase, inputRef, listeners, dispatch, query, dirty, inputValue, adapterVars, hl>>

FocusInput ==
    /\ phase = "mounted"
    /\ focus = BODY
    /\ focus' = INPUT
    /\ ev' = NoEvent
    /\ log' = <<>>
    /\ UNCHANGED <<phase, inputRef, listeners, dispatch, query, dirty, inputValue, adapterVars, hl>>

\* a change event of the input whose current value is v
Change ==
    /\ phase = "mounted"
    /\ focus = INPUT
    /\ \E v \in Queries :
        LET s0 == [query |-> query, dirty |-> dirty, log |-> <<>>]
            s1 == HandleChange(s0, dispatch, v)
        IN  /\ ev' = [NoEvent EXCEPT !.type = "change", !.target = INPUT,
                                     !.value = v, !.pre = Snapshot]
            /\ query' = s1.query
            /\ dirty' = s1.dirty
            /\ log' = s1.log
            /\ inputValue' = InputValue(s1.query, v)
    /\ UNCHANGED <<phase, inputRef, listeners, dispatch, focus, adapterVars, hl>>

\* a keyup event reaches the document
KeyUp ==
    \E k \in Keys, t \in Targets :
        /\ t = INPUT => phase = "mounted"
        /\ LET e == [NoEvent EXCEPT !.type = "keyup", !.key = k, !.target = t,
                                    !.pre = Snapshot]
               s0 == [query |-> query, dirty |-> dirty, log |-> <<>>,
                      focus |-> focus, defaultPrevented |-> FALSE]
               s1 == RunListeners(listeners, s0, e, inputRef)
           IN  /\ ev' = [e EXCEPT !.defaultPrevented = s1.defaultPrevented]
               /\ query' = s1.query
               /\ dirty' = s1.dirty
               /\ log' = s1.log
               /\ focus' = s1.focus
               /\ inputValue' = IF phase = "mounted"
                                THEN InputValue(s1.query, inputValue)
                                ELSE inputValue
        /\ UNCHANGED <<phase, inputRef, listeners, dispatch, adapterVars, hl>>

HeaderNext ==
    \/ Mount \/ Rerender \/ Unmount \/ DetachRef \/ FlushCleanups
    \/ Blur \/ FocusInput \/ Change \/ KeyUp

(***************************************************************************)
(* getHighlightedText (Android)                                            *)
(***************************************************************************)
\* how long a translation text may be, in characters
MaxTextLen == 2
\* how many highlight terms an item may carry
MaxTerms == 2

\* the characters of the translation texts
Alphabet == {"A", "a", "h"}
\* the highlight terms: words of letters, no regex metacharacters
Terms == {<<"a">>, <<"h">>, <<"a", "h">>}

\* the decimal form of ContextCompat.getColor(context, R.color.ibTextHighlight)
IbTextHighlight == <<"-", "1">>
NoColor == <<>>

\* RegexOption.IGNORE_CASE compares characters without their case
Lower(c) == IF c = "A" THEN "a" ELSE IF c = "H" THEN "h" ELSE c

\* "<b><font color='${color}' >${it.value}</font></b>"
Markup(value) ==
    <<"<", "b", ">", "<", "f", "o", "n", "t", " ",
      "c", "o", "l", "o", "r", "=", "'">> \o IbTextHighlight \o <<"'", " ", ">">>
    \o value
    \o <<"<", "/", "f", "o", "n", "t", ">", "<", "/", "b", ">">>

\* whether the literal pattern word matches text at index i
MatchesAt(word, text, i) ==
    /\ i + Len(word) - 1 <= Len(text)
    /\ \A k \in 1..Len(word) : Lower(text[i + k - 1]) = Lower(word[k])

\* word.toRegex(IGNORE_CASE).replace(text) { markup }: every match, found
\* left to right without overlap, is replaced by its markup
RECURSIVE Replace(_, _, _)
Replace(word, text, i) ==
    IF i > Len(text) THEN <<>>
    ELSE IF Len(word) > 0 /\ MatchesAt(word, text, i)
         THEN Markup(SubSeq(text, i, i + Len(word) - 1))
              \o Replace(word, text, i + Len(word))
         ELSE <<text[i]>> \o Replace(word, text, i + 1)

\* highlightsList.fold(text) { text, word -> replace }
RECURSIVE Fold(_, _)
Fold(words, text) ==
    IF words = <<>> THEN text
    ELSE Fold(Tail(words), Replace(Head(words), text, 1))

\* the index of the first c in s at or after i, or 0
RECURSIVE IndexOf(_, _, _)
IndexOf(s, c, i) ==
    IF i > Len(s) THEN 0
    ELSE IF s[i] = c THEN i
    ELSE IndexOf(s, c, i + 1)

StartsWith(s, prefix) ==
    /\ Len(s) >= Len(prefix)
    /\ SubSeq(s, 1, Len(prefix)) = prefix

\* the value of the quoted attribute of a tag
AttrValue(tag) ==
    LET q1 == IndexOf(tag, "'", 1)
        q2 == IF q1 = 0 THEN 0 ELSE IndexOf(tag, "'", q1 + 1)
    IN  IF q2 = 0 THEN NoColor ELSE SubSeq(tag, q1 + 1, q2 - 1)

\* HtmlCompat.fromHtml(html, FROM_HTML_MODE_LEGACY): the tags are removed;
\* text inside <b> is bold, text inside <font color> is coloured; a run of
\* white space becomes one space and leading white space is dropped
RECURSIVE FromHtmlFrom(_, _, _, _, _)
FromHtmlFrom(html, i, bold, colors, out) ==
    IF i > Len(html) THEN out
    ELSE IF html[i] = "<"
    THEN LET j == IndexOf(html, ">", i)
             tag == SubSeq(html, i + 1, j - 1)
         IN  IF j = 0 THEN out
             ELSE IF tag = <<"b">>
                  THEN FromHtmlFrom(html, j + 1, bold + 1, colors, out)
             ELSE IF tag = <<"/", "b">>
                  THEN FromHtmlFrom(html, j + 1,
                                    IF bold > 0 THEN bold - 1 ELSE 0, colors, out)
             ELSE IF StartsWith(tag, <<"f", "o", "n", "t", " ">>)
                  THEN FromHtmlFrom(html, j + 1, bold,
                                    <<AttrValue(tag)>> \o colors, out)
             ELSE IF tag = <<"/", "f", "o", "n", "t">>
                  THEN FromHtmlFrom(html, j + 1, bold,
                                    IF colors = <<>> THEN <<>> ELSE Tail(colors), out)
             ELSE FromHtmlFrom(html, j + 1, bold, colors, out)
    ELSE IF html[i] = " " /\ (out = <<>> \/ out[Len(out)].ch = " ")
    THEN FromHtmlFrom(html, i + 1, bold, colors, out)
    ELSE FromHtmlFrom(html, i + 1, bold, colors,
                      Append(out, [ch |-> html[i], bold |-> bold > 0,
                                   color |-> IF colors = <<>> THEN NoColor
                                             ELSE Head(colors)]))

FromHtml(html) == FromHtmlFrom(html, 1, 0, <<>>, <<>>)

\* item.getText(idx): the texts are indexed from 0
getText(item, idx) == item.text[idx + 1]

getHighlightedText(item, idx) ==
    FromHtml(Fold(item.highlightsList, getText(item, idx)))

\* the characters of a rendered text, without their styling
Chars(spanned) == [i \in 1..Len(spanned) |-> spanned[i].ch]
\* the positions of a rendered text that are bold and coloured
Highlighted(spanned) ==
    {i \in 1..Len(spanned) : spanned[i].bold /\ spanned[i].color = IbTextHighlight}
\* the positions of a rendered text that carry any styling
Styled(spanned) ==
    {i \in 1..Len(spanned) : spanned[i].bold \/ spanned[i].color # NoColor}
\* the positions of text inside a case-insensitive occurrence of a term
Occurrences(text, words) ==
    {i \in 1..Len(text) :
        \E n \in 1..Len(words) : \E j \in 1..i :
            /\ Len(words[n]) > 0
            /\ i <= j + Len(words[n]) - 1
            /\ MatchesAt(words[n], text, j)}

RECURSIVE SeqsUpTo(_, _)
SeqsUpTo(S, n) ==
    IF n = 0 THEN {<<>>}
    ELSE LET shorter == SeqsUpTo(S, n - 1)
         IN  shorter \cup {Append(s, x) : s \in shorter, x \in S}

Texts == SeqsUpTo(Alphabet, MaxTextLen)
HighlightLists == SeqsUpTo(Terms, MaxTerms)

HighlightInit ==
    /\ phase = HeaderIdle.phase
    /\ inputRef = HeaderIdle.inputRef
    /\ listeners = HeaderIdle.listeners
    /\ dispatch = HeaderIdle.dispatch
    /\ query = HeaderIdle.query
    /\ dirty = HeaderIdle.dirty
    /\ inputValue = HeaderIdle.inputValue
    /\ focus = HeaderIdle.focus
    /\ ev = HeaderIdle.ev
    /\ log = HeaderIdle.log
    /\ data = <<>>
    /\ holders = <<>>
    /\ last = <<>>
    /\ \E t0 \in Texts, t1 \in Texts, ws \in HighlightLists, idx \in {0, 1} :
        hl = [item |-> [text |-> <<t0, t1>>, highlightsList |-> ws],
              idx |-> idx, done |-> FALSE, result |-> <<>>]

\* a call of getHighlightedText(context, item, idx)
Highlight ==
    /\ hl.done = FALSE
    /\ hl' = [hl EXCEPT !.done = TRUE,
                        !.result = getHighlightedText(hl.item, hl.idx)]
    /\ UNCHANGED <<headerVars, adapterVars>>

HighlightNext == Highlight

(***************************************************************************)
(* VerseResultAdapter (Android)                                            *)
(***************************************************************************)
\* how many results the adapter's data may hold
MaxData == 2

\* Data.Translation.TOTAL_VALUE: the number of translation buttons
TOTAL_VALUE == 3

ibButton == "ibButton"
ibButtonBold == "ibButtonBold"

\* the view holders the RecyclerView may create
Holders == {"h1", "h2"}

\* bible.instant.getBookName
getBookName(book) == IF book = 0 THEN "Genesis" ELSE "Exodus"

\* Service.Response.VerseResult values the service may return; ItemC comes
\* from a service that knows one translation more than this client
ItemA == [key |-> [book |-> 0, chapter |-> 1, verse |-> 1],
          topTranslationValue |-> 0,
          text |-> <<<<"A", "h">>, <<"h", "a">>, <<"a", "A">>>>,
          highlightsList |-> <<<<"a">>>>]
ItemB == [key |-> [book |-> 1, chapter |-> 2, verse |-> 3],
          topTranslationValue |-> 1,
          text |-> <<<<"h", "h">>, <<"h", "A">>, <<"a", "h">>>>,
          highlightsList |-> <<<<"a", "h">>>>]
ItemC == [key |-> [book |-> 0, chapter |-> 1, verse |-> 2],
          topTranslationValue |-> TOTAL_VALUE,
          text |-> <<<<"a">>, <<"h">>, <<"A">>, <<"A", "A">>>>,
          highlightsList |-> <<>>]
Items == {ItemA, ItemB, ItemC}
NoItem == [key |-> [book |-> 0, chapter |-> 0, verse |-> 0],
           topTranslationValue |-> 0, text |-> <<>>, highlightsList |-> <<>>]

\* the result lists: each verse at most once
DataLists ==
    {d \in SeqsUpTo(Items, MaxData) :
        \A i, j \in 1..Len(d) : d[i] = d[j] => i = j}

NoListener == [item |-> NoItem, t |-> 0 - 1]
NotCreated == [created |-> FALSE, item |-> NoItem, recycled |-> FALSE,
               verseTitle |-> <<>>, verseText |-> <<>>, styles |-> <<>>,
               onClick |-> <<>>]
NoOp == [op |-> "none", h |-> "", p |-> 0, t |-> 0, preItem |-> NoItem,
         preBold |-> {}]

\* the indices of the buttons of a holder that are in the bold style
BoldButtons(holder) ==
    {t \in 0..(Len(holder.styles) - 1) : holder.styles[t + 1] = ibButtonBold}

getItemCount == Len(data)

\* "${getBookName(item.key.book)} ${item.key.chapter}:${item.key.verse}"
VerseTitle(item) ==
    <<getBookName(item.key.book), " ", item.key.chapter, ":", item.key.verse>>

\* onCreateViewHolder: TOTAL_VALUE buttons in the normal style, no listeners
NewHolder ==
    [created |-> TRUE, item |-> NoItem, recycled |-> FALSE,
     verseTitle |-> <<>>, verseText |-> <<>>,
     styles |-> [t \in 1..TOTAL_VALUE |-> ibButton],
     onClick |-> [t \in 1..TOTAL_VALUE |-> NoListener]]

\* the first loop of onBindViewHolder: one setButtonStyle per child
\* (variant: only the top translation's button is restyled)
BindStylesKeep(styles, item) ==
    [i \in 1..Len(styles) |->
        IF i - 1 = item.topTranslationValue THEN ibButtonBold ELSE styles[i]]
BindStyles(styles, item) ==
    [i \in 1..Len(styles) |->
        IF i - 1 = item.topTranslationValue THEN ibButtonBold ELSE ibButton]

\* the second loop of onBindViewHolder: one setOnClickListener per child,
\* each listener closed over item and its own t
\* (variant: a button that has a listener keeps it)
BindListenersOnce(onClick, item) ==
    [i \in 1..Len(onClick) |->
        IF onClick[i] = NoListener THEN [item |-> item, t |-> i - 1]
        ELSE onClick[i]]
BindListeners(onClick, item) ==
    [i \in 1..Len(onClick) |-> [item |-> item, t |-> i - 1]]

\* the item onBindViewHolder reads
BoundItem(position) == data[position + 1]

\* the body of onBindViewHolder on a holder; item records the item of this
\* bind, recycled whether the holder showed another item before it
Bind(holder, item) ==
    [holder EXCEPT !.item = item,
                   !.recycled = (holder.item # NoItem /\ holder.item # item),
                   !.verseTitle = VerseTitle(item),
                   !.verseText = getHighlightedText(item, item.topTranslationValue),
                   !.styles = BindStyles(holder.styles, item),
                   !.onClick = BindListeners(holder.onClick, item)]

\* the click listener l of a translation button, run on its holder
\* (variant: the text of the default translation, not of the clicked one)
OnClickTop(holder, l) ==
    [holder EXCEPT
        !.verseText = getHighlightedText(l.item, l.item.topTranslationValue),
        !.styles = [i \in 1..Len(holder.styles) |->
                        IF i - 1 = l.t THEN ibButtonBold ELSE ibButton]]
\* (variant: the other buttons keep their style)
OnClickNoReset(holder, l) ==
    [holder EXCEPT
        !.verseText = getHighlightedText(l.item, l.t),
        !.styles = [i \in 1..Len(holder.styles) |->
                        IF i - 1 = l.t THEN ibButtonBold ELSE holder.styles[i]]]
OnClick(holder, l) ==
    [holder EXCEPT
        !.verseText = getHighlightedText(l.item, l.t),
        !.styles = [i \in 1..Len(holder.styles) |->
                        IF i - 1 = l.t THEN ibButtonBold ELSE ibButton]]

AdapterInit ==
    /\ phase = HeaderIdle.phase
    /\ inputRef = HeaderIdle.inputRef
    /\ listeners = HeaderIdle.listeners
    /\ dispatch = HeaderIdle.dispatch
    /\ query = HeaderIdle.query
    /\ dirty = HeaderIdle.dirty
    /\ inputValue = HeaderIdle.inputValue
    /\ focus = HeaderIdle.focus
    /\ ev = HeaderIdle.ev
    /\ log = HeaderIdle.log
    /\ hl = <<>>
    /\ data = <<>>
    /\ holders = [h \in Holders |-> NotCreated]
    /\ last = NoOp

\* data = value; notifyDataSetChanged() only schedules the binds to come
SetData ==
    /\ \E value \in DataLists :
        /\ value # data
        /\ data' = value
    /\ last' = [NoOp EXCEPT !.op = "setData"]
    /\ UNCHANGED <<holders, headerVars, hl>>

CreateViewHolder ==
    /\ \E h \in Holders :
        /\ ~holders[h].created
        /\ holders' = [holders EXCEPT ![h] = NewHolder]
        /\ last' = [NoOp EXCEPT !.op = "create", !.h = h]
    /\ UNCHANGED <<data, headerVars, hl>>

\* onBindViewHolder(holder, position); getText throws when the item has no
\* text at the index, which ends the program
BindViewHolder ==
    /\ \E h \in Holders, position \in 0..(MaxData - 1) :
        /\ holders[h].created
        /\ position < getItemCount
        /\ BoundItem(position).topTranslationValue < Len(BoundItem(position).text)
        /\ holders' = [holders EXCEPT ![h] = Bind(holders[h], BoundItem(position))]
        /\ last' = [op |-> "bind", h |-> h, p |-> position, t |-> 0,
                    preItem |-> holders[h].item,
                    preBold |-> BoldButtons(holders[h])]
    /\ UNCHANGED <<data, headerVars, hl>>

\* a click on the translation button at index t of a holder
Click ==
    /\ \E h \in Holders, t \in 0..(TOTAL_VALUE - 1) :
        /\ holders[h].created
        /\ holders[h].onClick[t + 1] # NoListener
        /\ holders[h].onClick[t + 1].t < Len(holders[h].onClick[t + 1].item.text)
        /\ holders' = [holders EXCEPT
                          ![h] = OnClick(holders[h], holders[h].onClick[t + 1])]
        /\ last' = [op |-> "click", h |-> h, p |-> 0, t |-> t,
                    preItem |-> holders[h].item,
                    preBold |-> BoldButtons(holders[h])]
    /\ UNCHANGED <<data, headerVars, hl>>

AdapterNext == SetData \/ CreateViewHolder \/ BindViewHolder \/ Click

SpecAdapter == AdapterInit /\ [][AdapterNext]_vars

SpecHeader == HeaderInit /\ [][HeaderNext]_vars

SpecHighlight == HighlightInit /\ [][HighlightNext]_vars

(***************************************************************************)
(* Properties of the search header, checked under SpecHeader               *)
(***************************************************************************)
CountKind(ls, kind) == Cardinality({i \in 1..Len(ls) : ls[i].kind = kind})

\* C1: while the header is mounted and its input exists, a keyup of '/' whose
\* target is not the search input calls preventDefault and leaves the search
\* input focused
C1_SlashFocusesInput ==
    (/\ ev.type = "keyup" /\ ev.key = "/" /\ ev.target # INPUT
     /\ ev.pre.phase = "mounted" /\ ev.pre.inputRef = INPUT)
    => (ev.defaultPrevented /\ focus = INPUT)

C1_Witness ==
    /\ ev.type = "keyup" /\ ev.key = "/" /\ ev.target = BODY
    /\ ev.pre.phase = "mounted" /\ ev.pre.inputRef = INPUT
    /\ ev.pre.focus = BODY
    /\ focus = INPUT

\* C2: while the header is mounted, a keyup of Escape dispatches exactly one
\* doReset, whatever its target, the query and the dirty flag are, and the
\* input then shows the reset (empty) query
C2_EscapeResets ==
    (ev.type = "keyup" /\ ev.key = "Escape" /\ ev.pre.phase = "mounted")
    => /\ log = <<[action |-> doReset, via |-> dispatch]>>
       /\ query = ""
       /\ inputValue = ""

C2_Witness ==
    /\ ev.type = "keyup" /\ ev.key = "Escape" /\ ev.target = INPUT
    /\ ev.pre.phase = "mounted"
    /\ ev.pre.query = "ab" /\ ev.pre.dirty
    /\ Len(log) = 1
    /\ inputValue = ""

\* C5: a change event of the search input dispatches exactly one doSearch
\* carrying the input's value at the time of the event, and a mounted input
\* always displays the store's query
C5_ChangeDispatchesSearch ==
    /\ ev.type = "change"
        => log = <<[action |-> [type |-> "doSearch", query |-> ev.value],
                    via |-> dispatch]>>
    /\ phase = "mounted" => inputValue = query

C5_Witness ==
    /\ ev.type = "change" /\ ev.value = "ab"
    /\ ev.pre.query = "a"
    /\ Len(log) = 1
    /\ inputValue = "ab"

C10_SlashFrame ==
    (ev.type = "keyup" /\ ev.key = "/")
    => /\ (ev.target = INPUT \/ ev.pre.inputRef = NULL)
            => (~ev.defaultPrevented /\ focus = ev.pre.focus)
       /\ log = <<>>
       /\ query = ev.pre.query
       /\ dirty = ev.pre.dirty

C10_Witness ==
    /\ ev.type = "keyup" /\ ev.key = "/" /\ ev.target = INPUT
    /\ ev.pre.focus = BODY
    /\ ev.pre.query = "ab" /\ ev.pre.dirty
    /\ ~ev.defaultPrevented

(***************************************************************************)
(* Properties of the adapter, checked under SpecAdapter                    *)
(***************************************************************************)
\* The texts of ItemA, ItemB and ItemC differ from translation to translation
\* and from item to item, so the characters a holder displays tell which
\* item and which translation it shows.
\* C3: a click on the button at index t of a bound holder sets the verse text
\* to the highlighted text of translation t of the holder's item, and leaves
\* exactly the clicked button bold and every other button normal
C3_ClickShowsTranslation ==
    last.op = "click"
    => LET holder == holders[last.h]
       IN  /\ holder.verseText = getHighlightedText(holder.item, last.t)
           /\ Chars(holder.verseText) = holder.item.text[last.t + 1]
           /\ \A t \in 0..(TOTAL_VALUE - 1) :
                holder.styles[t + 1] = IF t = last.t THEN ibButtonBold ELSE ibButton

C3_Witness ==
    /\ last.op = "click"
    /\ holders[last.h].item = ItemA
    /\ last.t = 2
    /\ last.preBold = {0}
    /\ BoldButtons(holders[last.h]) = {2}
    /\ Chars(holders[last.h].verseText) = <<"a", "A">>

\* C4: a bind of a holder to position p shows data[p]: its title, the
\* highlighted text of its top translation, and exactly the button of index
\* topTranslationValue bold, whatever the holder carried before
C4_BindShowsItem ==
    last.op = "bind"
    => LET holder == holders[last.h]
           item == data[last.p + 1]
       IN  /\ holder.verseTitle = <<getBookName(item.key.book), " ",
                                    item.key.chapter, ":", item.key.verse>>
           /\ holder.verseText =
                getHighlightedText(item, item.topTranslationValue)
           /\ Chars(holder.verseText) = item.text[item.topTranslationValue + 1]
           /\ \A t \in 0..(TOTAL_VALUE - 1) :
                holder.styles[t + 1] =
                    IF t = item.topTranslationValue THEN ibButtonBold ELSE ibButton

C4_Witness ==
    /\ last.op = "bind" /\ last.p = 1
    /\ data = <<ItemA, ItemB>>
    /\ last.preItem = ItemA
    /\ last.preBold = {2}
    /\ holders[last.h].verseTitle = <<"Exodus", " ", 2, ":", 3>>
    /\ BoldButtons(holders[last.h]) = {1}

\* C6: every bound holder whose item has a valid topTranslationValue has
\* exactly one bold button, the one of the translation whose text it displays
C6_OneBoldMatchesText ==
    \A h \in Holders :
        (/\ holders[h].created
         /\ holders[h].item # NoItem
         /\ holders[h].item.topTranslationValue \in 0..(TOTAL_VALUE - 1))
        => \E b \in 0..(TOTAL_VALUE - 1) :
            /\ BoldButtons(holders[h]) = {b}
            /\ holders[h].verseText = getHighlightedText(holders[h].item, b)
            /\ Chars(holders[h].verseText) = holders[h].item.text[b + 1]

C6_Witness ==
    /\ last.op = "bind"
    /\ holders[last.h].item = ItemA
    /\ last.preItem = ItemC
    /\ last.preBold = {1}
    /\ \A h \in Holders : holders[h].item # NoItem
    /\ \E h \in Holders : BoldButtons(holders[h]) = {2}

\* C7: after a holder bound to item A is bound again to item B, a click on
\* any of its buttons displays text of item B; every bind replaces the click
\* listener of every translation button of the holder
C7_NoStaleListener ==
    /\ \A h \in Holders :
        (holders[h].created /\ holders[h].item # NoItem)
        => \A t \in 0..(TOTAL_VALUE - 1) :
            holders[h].onClick[t + 1] = [item |-> holders[h].item, t |-> t]
    /\ last.op = "click"
        => /\ holders[last.h].verseText =
                getHighlightedText(holders[last.h].item, last.t)
           /\ Chars(holders[last.h].verseText) = holders[last.h].item.text[last.t + 1]

C7_Witness ==
    /\ last.op = "click" /\ last.t = 0
    /\ holders[last.h].recycled
    /\ holders[last.h].item = ItemB
    /\ Chars(holders[last.h].verseText) = <<"h", "h">>

(***************************************************************************)
(* Properties of getHighlightedText, checked under SpecHighlight           *)
(***************************************************************************)
\* C8: once the markup is removed the rendered text has exactly the characters
\* of the selected translation's text, the bold, coloured spans are exactly the
\* case-insensitive occurrences of the highlight terms in that text, and with
\* an empty highlight list the result is the plain text
C8_HighlightOnlyStyles ==
    hl.done =>
        LET text == getText(hl.item, hl.idx)
        IN  /\ Chars(hl.result) = text
            /\ Highlighted(hl.result) = Occurrences(text, hl.item.highlightsList)
            /\ Styled(hl.result) = Highlighted(hl.result)
====
